---- MODULE Spec2Model ----
(***************************************************************************)
(* Honeybee: the sun matrix generator (radiance/sky/sunmatrix.py) with its *)
(* hours-signature cache, and the glass material (radiance/material/       *)
(* glass.py).                                                              *)
(*                                                                         *)
(* A working directory holds, for one base name, the four files .hrs,      *)
(* .ann, .sun and .mtx.  SunMatrix objects are constructed over a weather  *)
(* series and an hour sequence and execute() is run on them; execute is    *)
(* modelled statement by statement, so that an exception and a second      *)
(* caller can fall between two file operations.                            *)
(***************************************************************************)
EXTENDS Integers, Sequences, FiniteSets, TLC

\* Longest hour sequence a caller passes to SunMatrix().
MaxLen == 2

\* The hours of the year of the model, in the order of range(8760).
AllHoys == <<1, 11>>

HoySet == {AllHoys[i] : i \in 1..Len(AllHoys)}

\* Direct normal radiation readings of a weather series, in half Wh/m2:
\* 0 is 0.0, 1 is 0.5, 2 is 1.0.
DnrValues == {0, 1, 2}

\* Solar altitudes the sun path returns, in degrees: below the horizon, and
\* the least altitude that is not.
AltValues == {-1, 0}

\* Radiances gendaylit returns, after int().
RadValues == {0, 5}

Procs == {1, 2}

\* No material created yet.
NoGlass == [type |-> "none"]

\* A path at which there is no file.
NoFile == [isfile |-> FALSE]

\* The matrix file before its header is written.
NoHeader == [written |-> FALSE]

\* No value returned (yet).
None == <<>>

Suffixes == {"hrs", "ann", "sun", "mtx"}

VARIABLES
    dir,      \* the working directory: suffix -> content of <name>.<suffix>
    sunpath,  \* the location's sun path: hour of the year -> altitude
    self,     \* per caller, the SunMatrix object: hoys and wea
    frame,    \* per caller, the running execute(): position and locals
    spy,      \* per caller, what execute() did: collaborator calls, files opened
    glass     \* the last Glass material created, with the arguments given

vars == <<dir, sunpath, self, frame, spy, glass>>

----------------------------------------------------------------------------
(* Text. *)

DigitChars == <<"0", "1", "2", "3", "4", "5", "6", "7", "8", "9">>

\* str(h) of a non-negative integer: its decimal digits.
RECURSIVE Str(_)
Str(n) == IF n < 10 THEN <<DigitChars[n + 1]>>
          ELSE Str(n \div 10) \o <<DigitChars[(n % 10) + 1]>>

\* sep.join(parts)
RECURSIVE Join(_, _)
Join(parts, sep) ==
    IF Len(parts) = 0 THEN <<>>
    ELSE IF Len(parts) = 1 THEN parts[1]
    ELSE parts[1] \o sep \o Join(Tail(parts), sep)

\* ','.join(str(h) for h in self.hoys) + '\n'
Signature(hoys) == Join([i \in 1..Len(hoys) |-> Str(hoys[i])], <<",">>) \o <<"\n">>

\* int(x) of a reading in half units (readings are not negative).
IntOf(x) == x \div 2

----------------------------------------------------------------------------
(* The SunMatrix object. *)

SeqsUpTo(S, n) == UNION {[1..k -> S] : k \in 0..n}

\* SunMatrix.__init__: hoys or range(8760)
Construct(wea, hoysArg) ==
    [wea |-> wea, hoys |-> IF hoysArg = <<>> THEN AllHoys ELSE hoysArg]

\* The three paths execute returns.
Paths == <<"ann", "sun", "mtx">>

\* hoursMatch, were the file compared with the hours without the line's end.
HoursMatchNoNewline(d, hoys) ==
    IF d["hrs"] = NoFile THEN FALSE
    ELSE d["hrs"].text = Join([i \in 1..Len(hoys) |-> Str(hoys[i])], <<",">>)

\* hoursMatch, were the two texts compared by their length.
HoursMatchByLength(d, hoys) ==
    IF d["hrs"] = NoFile THEN FALSE
    ELSE Len(d["hrs"].text) = Len(Signature(hoys))

\* hoursMatch
HoursMatch(d, hoys) ==
    IF d["hrs"] = NoFile THEN FALSE
    ELSE d["hrs"].text = Signature(hoys)

\* The loop over fp, lfp, mfp, were one file enough.
AnyOutput(d) == \E i \in 1..Len(Paths) : d[Paths[i]] # NoFile

\* os.path.isfile for each of fp, lfp, mfp
AllOutputs(d) == \A i \in 1..Len(Paths) : d[Paths[i]] # NoFile

IdleFrame ==
    [pc |-> "idle", reuse |-> TRUE, solarradiances |-> <<>>, sunValues |-> <<>>,
     sunUpHours |-> <<>>, idx |-> 0, ret |-> None]

NoSpy ==
    [gendaylit |-> 0, calculateSun |-> 0, opened |-> {}, printed |-> {},
     last |-> "none"]

Resting(p) == frame[p].pc \in {"idle", "done", "raised"}

----------------------------------------------------------------------------
(* The loop over the hours (lines 152-169). *)

NoSuns ==
    [count |-> 0, solarradiances |-> <<>>, sunValues |-> <<>>, sunUpHours |-> <<>>,
     gendaylit |-> 0, calculateSun |-> 0]

\* solarstring.format(count, solarradiance, -x, -y, -z): the sun's number, its
\* radiance (three times) and its vector, which is that of the hour h.
SunDefinition(count, solarradiance, h) ==
    [id |-> count, rad |-> <<solarradiance, solarradiance, solarradiance>>, vec |-> h]

\* One pass of the loop body, for hour h at position timecount (from 0).
LoopBody(acc, timecount, h, wea, alt, rad) ==
    LET dnr == IntOf(wea[h]) IN
    IF dnr = 0 THEN acc
    ELSE LET count == acc.count + 1
             suns  == acc.calculateSun + 1
         IN IF alt[h] < 0
            THEN [acc EXCEPT !.count = count, !.calculateSun = suns]
            ELSE [count          |-> count,
                  solarradiances |-> Append(acc.solarradiances, rad[h]),
                  sunValues      |-> Append(acc.sunValues,
                                            SunDefinition(count, rad[h], h)),
                  sunUpHours     |-> Append(acc.sunUpHours, timecount),
                  gendaylit      |-> acc.gendaylit + 1,
                  calculateSun   |-> suns]

RECURSIVE SunLoop(_, _, _, _, _)
SunLoop(hoys, n, wea, alt, rad) ==
    IF n = 0 THEN NoSuns
    ELSE LoopBody(SunLoop(hoys, n - 1, wea, alt, rad), n - 1, hoys[n], wea, alt, rad)

----------------------------------------------------------------------------
(* What is written to the files (lines 176-206). *)

Truncated == [lines |-> <<>>, closed |-> FALSE]

\* "\n".join(sunValues), then '\n'
AnnContent(sunValues) == [lines |-> sunValues, closed |-> TRUE]

\* "\n".join("solar%s" % (idx + 1) for idx in xrange(sunCount)), then '\n'
SunContent(sunCount) == [lines |-> [idx \in 1..sunCount |-> idx], closed |-> TRUE]

\* fileHeader, were NCOLS the number of suns.
FileHeaderOfSuns(sunCount, hoys) == [nrows |-> sunCount, ncols |-> sunCount]

\* NROWS and NCOLS of fileHeader
FileHeader(sunCount, hoys) == [nrows |-> sunCount, ncols |-> Len(hoys)]

ZeroCell == <<0, 0, 0>>

\* sunRadList, were the radiance put at the row's own number.
SunRadListAtRow(hoys, sunUpHours, solarradiances, idx) ==
    [c \in 1..Len(hoys) |->
        IF c = idx
        THEN <<solarradiances[idx], solarradiances[idx], solarradiances[idx]>>
        ELSE ZeroCell]

\* sunRadList of row idx (from 1): '0 0 0' everywhere but at sunUpHours[idx]
SunRadList(hoys, sunUpHours, solarradiances, idx) ==
    [c \in 1..Len(hoys) |->
        IF c = sunUpHours[idx] + 1
        THEN <<solarradiances[idx], solarradiances[idx], solarradiances[idx]>>
        ELSE ZeroCell]

MtxOpened == [header |-> NoHeader, rows |-> <<>>, closed |-> FALSE]

----------------------------------------------------------------------------
(* Construction and execute(), one action per statement. *)

Init ==
    /\ dir = [f \in Suffixes |-> NoFile]
    /\ sunpath \in [HoySet -> AltValues]
    /\ self = [p \in Procs |-> Construct([h \in HoySet |-> 0], <<>>)]
    /\ frame = [p \in Procs |-> IdleFrame]
    /\ spy = [p \in Procs |-> NoSpy]
    /\ glass = NoGlass

\* SunMatrix(wea, north, hoys) for the same location and north.
NewSunMatrix(p) ==
    /\ Resting(p)
    /\ \E wea \in [HoySet -> DnrValues], hoysArg \in SeqsUpTo(HoySet, MaxLen) :
          self' = [self EXCEPT ![p] = Construct(wea, hoysArg)]
    /\ frame' = [frame EXCEPT ![p] = IdleFrame]
    /\ spy' = [spy EXCEPT ![p] = NoSpy]
    /\ UNCHANGED <<dir, sunpath, glass>>

\* How the object's previous execute ended, for the spy: it returned and was
\* called with reuse=True, it raised, or neither.
Ended(p) ==
    CASE frame[p].pc = "done" /\ frame[p].reuse -> "returned_reuse"
      [] frame[p].pc = "raised" -> "raised"
      [] OTHER -> "none"

\* execute(workingDir, reuse): lines 121-124
Execute(p) ==
    /\ Resting(p)
    /\ \E reuse \in BOOLEAN :
          frame' = [frame EXCEPT ![p] = [IdleFrame EXCEPT !.pc = "check", !.reuse = reuse]]
    /\ spy' = [spy EXCEPT ![p] = [NoSpy EXCEPT !.last = Ended(p)]]
    /\ UNCHANGED <<dir, sunpath, self, glass>>

\* The check, were it made when reuse is off.
CheckHoursNotReuse(p) ==
    /\ frame[p].pc = "check"
    /\ IF ~frame[p].reuse /\ HoursMatch(dir, self[p].hoys)
       THEN /\ frame' = [frame EXCEPT ![p].pc = "found"]
            /\ spy' = [spy EXCEPT ![p].printed = @ \cup {"Reusing SunMatrix"}]
       ELSE /\ frame' = [frame EXCEPT ![p].pc = "open_hrs"]
            /\ spy' = spy
    /\ UNCHANGED <<dir, sunpath, self, glass>>

\* lines 126-127
CheckHours(p) ==
    /\ frame[p].pc = "check"
    /\ IF frame[p].reuse /\ HoursMatch(dir, self[p].hoys)
       THEN /\ frame' = [frame EXCEPT ![p].pc = "found"]
            /\ spy' = [spy EXCEPT ![p].printed = @ \cup {"Reusing SunMatrix"}]
       ELSE /\ frame' = [frame EXCEPT ![p].pc = "open_hrs"]
            /\ spy' = spy
    /\ UNCHANGED <<dir, sunpath, self, glass>>

\* The loop over the files, were its else branch never taken.
CheckFilesNoReturn(p) ==
    /\ frame[p].pc = "found"
    /\ frame' = [frame EXCEPT ![p].pc = "open_hrs"]
    /\ UNCHANGED <<dir, sunpath, self, spy, glass>>

\* lines 128-133
CheckFiles(p) ==
    /\ frame[p].pc = "found"
    /\ IF AllOutputs(dir)
       THEN /\ frame' = [frame EXCEPT ![p] = [@ EXCEPT !.pc = "done", !.ret = Paths]]
            /\ spy' = [spy EXCEPT ![p].printed = @ \cup {"Found the sun matrix!"}]
       ELSE /\ frame' = [frame EXCEPT ![p].pc = "open_hrs"]
            /\ spy' = spy
    /\ UNCHANGED <<dir, sunpath, self, glass>>

\* open(f, 'w'): the file is created or cut to nothing
Open(p, f, empty, next) ==
    /\ dir' = [dir EXCEPT ![f] = empty]
    /\ spy' = [spy EXCEPT ![p].opened = @ \cup {f}]
    /\ frame' = [frame EXCEPT ![p].pc = next]
    /\ UNCHANGED <<sunpath, self, glass>>

\* a write through the handle of p, then the next statement: the file holds
\* what p has written through this handle so far
Write(p, f, content, next) ==
    /\ dir' = [dir EXCEPT ![f] = content]
    /\ frame' = [frame EXCEPT ![p].pc = next]
    /\ UNCHANGED <<sunpath, self, spy, glass>>

\* line 135
OpenHrs(p) ==
    /\ frame[p].pc = "open_hrs"
    /\ Open(p, "hrs", [text |-> <<>>], "write_hrs")

\* line 136
WriteHrs(p) ==
    /\ frame[p].pc = "write_hrs"
    /\ Write(p, "hrs", [text |-> Signature(self[p].hoys)], "compute")

\* lines 138-171: the loop; gendaylit's values are its own
Compute(p) ==
    /\ frame[p].pc = "compute"
    /\ \E rad \in [HoySet -> RadValues] :
          LET r == SunLoop(self[p].hoys, Len(self[p].hoys), self[p].wea, sunpath, rad)
          IN /\ frame' = [frame EXCEPT ![p] =
                            [@ EXCEPT !.pc = "open_ann",
                                      !.solarradiances = r.solarradiances,
                                      !.sunValues = r.sunValues,
                                      !.sunUpHours = r.sunUpHours]]
             /\ spy' = [spy EXCEPT ![p] =
                            [@ EXCEPT !.gendaylit = r.gendaylit,
                                      !.calculateSun = r.calculateSun]]
    /\ UNCHANGED <<dir, sunpath, self, glass>>

\* The exception, were the signature file removed again on the way out.
ComputeRaisesRollback(p) ==
    /\ frame[p].pc = "compute"
    /\ frame' = [frame EXCEPT ![p].pc = "raised"]
    /\ dir' = [dir EXCEPT !["hrs"] = NoFile]
    /\ UNCHANGED <<sunpath, self, spy, glass>>

\* a collaborator raises inside the loop: execute ends there
ComputeRaises(p) ==
    /\ frame[p].pc = "compute"
    /\ frame' = [frame EXCEPT ![p].pc = "raised"]
    /\ UNCHANGED <<dir, sunpath, self, spy, glass>>

\* line 176
OpenAnn(p) ==
    /\ frame[p].pc = "open_ann"
    /\ Open(p, "ann", Truncated, "write_ann")

\* lines 177-178
WriteAnn(p) ==
    /\ frame[p].pc = "write_ann"
    /\ Write(p, "ann", AnnContent(frame[p].sunValues), "open_sun")

\* line 182
OpenSun(p) ==
    /\ frame[p].pc = "open_sun"
    /\ Open(p, "sun", Truncated, "write_sun")

\* lines 183-186
WriteSun(p) ==
    /\ frame[p].pc = "write_sun"
    /\ Write(p, "sun", SunContent(Len(frame[p].sunUpHours)), "open_mtx")

\* line 199
OpenMtx(p) ==
    /\ frame[p].pc = "open_mtx"
    /\ Open(p, "mtx", MtxOpened, "write_header")

\* what the handle of p has written of the matrix after its first k rows
MtxSoFar(p, k, closed) ==
    [header |-> FileHeader(Len(frame[p].sunUpHours), self[p].hoys),
     rows   |-> [idx \in 1..k |->
                    SunRadList(self[p].hoys, frame[p].sunUpHours,
                               frame[p].solarradiances, idx)],
     closed |-> closed]

\* line 200
WriteHeader(p) ==
    /\ frame[p].pc = "write_header"
    /\ dir' = [dir EXCEPT !["mtx"] = MtxSoFar(p, 0, FALSE)]
    /\ frame' = [frame EXCEPT ![p] = [@ EXCEPT !.pc = "write_rows", !.idx = 0]]
    /\ UNCHANGED <<sunpath, self, spy, glass>>

\* lines 201-204, one row
WriteRow(p) ==
    /\ frame[p].pc = "write_rows"
    /\ frame[p].idx < Len(frame[p].solarradiances)
    /\ dir' = [dir EXCEPT !["mtx"] = MtxSoFar(p, frame[p].idx + 1, FALSE)]
    /\ frame' = [frame EXCEPT ![p].idx = @ + 1]
    /\ UNCHANGED <<sunpath, self, spy, glass>>

\* lines 206-208
CloseMtx(p) ==
    /\ frame[p].pc = "write_rows"
    /\ frame[p].idx = Len(frame[p].solarradiances)
    /\ dir' = [dir EXCEPT !["mtx"] = MtxSoFar(p, frame[p].idx, TRUE)]
    /\ frame' = [frame EXCEPT ![p] =
                    [IdleFrame EXCEPT !.pc = "done", !.reuse = frame[p].reuse,
                                      !.ret = Paths]]
    /\ UNCHANGED <<sunpath, self, spy, glass>>

\* Somebody removes an output file from the directory while no execute runs;
\* what the executes before it returned is no longer looked at.
Remove ==
    /\ \A p \in Procs : Resting(p)
    /\ \E f \in {Paths[i] : i \in 1..Len(Paths)} :
          /\ dir[f] # NoFile
          /\ dir' = [dir EXCEPT ![f] = NoFile]
    /\ spy' = [p \in Procs |-> [spy[p] EXCEPT !.last = "none"]]
    /\ frame' = [p \in Procs |-> [frame[p] EXCEPT !.pc = "idle"]]
    /\ UNCHANGED <<sunpath, self, glass>>

\* The statements of one execute.
Statement(p) ==
    \/ CheckHours(p)
    \/ CheckFiles(p)
    \/ OpenHrs(p)
    \/ WriteHrs(p)
    \/ Compute(p)
    \/ ComputeRaises(p)
    \/ OpenAnn(p)
    \/ WriteAnn(p)
    \/ OpenSun(p)
    \/ WriteSun(p)
    \/ OpenMtx(p)
    \/ WriteHeader(p)
    \/ WriteRow(p)
    \/ CloseMtx(p)

\* One caller: execute runs from its first line to its return or its exception
\* before anything else happens to the directory.
Next == NewSunMatrix(1) \/ Execute(1) \/ Statement(1) \/ Remove

Spec == Init /\ [][Next]_vars

\* Two callers with the same request (weather series and hours), on the same
\* directory and base name, which holds nothing yet.
InitConc ==
    /\ dir = [f \in Suffixes |-> NoFile]
    /\ sunpath \in [HoySet -> AltValues]
    /\ \E wea \in [HoySet -> DnrValues], hoysArg \in SeqsUpTo(HoySet, MaxLen) :
          self = [p \in Procs |-> Construct(wea, hoysArg)]
    /\ frame = [p \in Procs |-> IdleFrame]
    /\ spy = [p \in Procs |-> NoSpy]
    /\ glass = NoGlass

\* Each calls execute once, and the statements of the two calls interleave.
NextConc == \E p \in Procs : (frame[p].pc = "idle" /\ Execute(p)) \/ Statement(p)

SpecConc == InitConc /\ [][NextConc]_vars

----------------------------------------------------------------------------
(* What the claims speak of. *)

\* The .hrs file holds the signature of hoys.
Recorded(hoys) == dir["hrs"] # NoFile /\ dir["hrs"].text = Signature(hoys)

\* The .ann, .sun and .mtx files are there.
ThreeOutputs == dir["ann"] # NoFile /\ dir["sun"] # NoFile /\ dir["mtx"] # NoFile

\* execute of p returned from line 133.
CacheHit(p) == frame[p].pc = "done" /\ "Found the sun matrix!" \in spy[p].printed

\* execute of p returned from line 208.
Regenerated(p) == frame[p].pc = "done" /\ "Found the sun matrix!" \notin spy[p].printed

\* Positions (from 1) of the hours of hoys that are in the set kept, in order.
RECURSIVE Positions(_, _, _)
Positions(hoys, n, kept) ==
    IF n = 0 THEN <<>>
    ELSE IF hoys[n] \in kept THEN Append(Positions(hoys, n - 1, kept), n)
    ELSE Positions(hoys, n - 1, kept)

\* Truncated radiation not zero, sun not below the horizon.
SunUp(p, h) == IntOf(self[p].wea[h]) # 0 /\ sunpath[h] >= 0

\* Radiation positive, sun not below the horizon.
SunUpPositive(p, h) == self[p].wea[h] > 0 /\ sunpath[h] >= 0

Surviving(p) ==
    Positions(self[p].hoys, Len(self[p].hoys), {h \in HoySet : SunUp(p, h)})

SurvivingPositive(p) ==
    Positions(self[p].hoys, Len(self[p].hoys), {h \in HoySet : SunUpPositive(p, h)})

NonZeroCells(row) == {c \in 1..Len(row) : row[c] # ZeroCell}

\* C1: once an execute(reuse=True) of an object has returned, a further
\* execute(reuse=True) of it on the untouched directory calls neither
\* gendaylit nor calculateSun, opens none of the four files, goes from the
\* check straight to its return, and returns the three paths.
C1_RepeatIsCacheHit ==
    \A p \in Procs :
        (spy[p].last = "returned_reuse" /\ frame[p].reuse /\ frame[p].pc # "idle")
        => /\ frame[p].pc \in {"check", "found", "done"}
           /\ spy[p].gendaylit = 0
           /\ spy[p].calculateSun = 0
           /\ spy[p].opened = {}
           /\ frame[p].pc = "done" => (CacheHit(p) /\ frame[p].ret = Paths)

C1_Witness ==
    /\ CacheHit(1)
    /\ spy[1].last = "returned_reuse"
    /\ frame[1].ret = Paths
    /\ spy[1].gendaylit = 0
    /\ Len(dir["mtx"].rows) = 2

\* Hour sequences a signature file may record.
Recordable == SeqsUpTo(HoySet, MaxLen + 1) \ {<<>>}

\* C2: execute(reuse=True) finds the hours to match, and returns a cache hit,
\* only when the sequence recorded in the .hrs file is the requested sequence,
\* element by element: no other sequence has the same file content.
C2_ExactSignature ==
    \A p \in Procs :
        (frame[p].pc = "found" \/ CacheHit(p))
        => /\ dir["hrs"] # NoFile
           /\ \A h \in Recordable :
                 dir["hrs"].text = Signature(h) => h = self[p].hoys

\* The file records the hours of another request, of the same length and the
\* same elements, and execute(reuse=True) goes on to regenerate.
C2_Witness ==
    /\ frame[1].pc = "open_hrs"
    /\ frame[1].reuse
    /\ ThreeOutputs
    /\ Recorded(<<11, 1>>)
    /\ self[1].hoys = <<1, 11>>

\* C3: a cache hit needs the matching signature and all three outputs; an
\* execute that returns has opened either none of the four files or all four.
C3_AllOrNothing ==
    \A p \in Procs :
        /\ CacheHit(p) => (Recorded(self[p].hoys) /\ ThreeOutputs
                           /\ spy[p].opened = {})
        /\ Regenerated(p) => spy[p].opened = Suffixes

\* The signature matched, an output was missing, and all four were rewritten.
C3_Witness ==
    /\ Regenerated(1)
    /\ "Reusing SunMatrix" \in spy[1].printed
    /\ spy[1].opened = Suffixes
    /\ spy[1].gendaylit > 0

\* The three outputs as a regeneration leaves them: whole, and of one size.
Shaped(hoys, count) ==
    /\ ThreeOutputs
    /\ dir["mtx"].closed
    /\ dir["mtx"].header = [nrows |-> count, ncols |-> Len(hoys)]
    /\ Len(dir["mtx"].rows) = count
    /\ \A k \in 1..Len(dir["mtx"].rows) : Len(dir["mtx"].rows[k]) = Len(hoys)
    /\ dir["ann"].closed
    /\ Len(dir["ann"].lines) = count
    /\ dir["sun"].closed
    /\ Len(dir["sun"].lines) = count

\* C4 as stated: after a regeneration the matrix has NROWS blocks of NCOLS
\* lines, NCOLS the number of requested hours and NROWS the number of them
\* with positive direct normal radiation and non-negative altitude; .ann and
\* .sun have NROWS entries; an hour with zero radiation has no entry.
C4_Stated ==
    \A p \in Procs :
        Regenerated(p)
        => /\ Shaped(self[p].hoys, Len(SurvivingPositive(p)))
           /\ \A k \in 1..Len(dir["ann"].lines) :
                 self[p].wea[dir["ann"].lines[k].vec] # 0

\* C4, amended: NROWS is the number of requested hours whose direct normal
\* radiation, cut to an integer by int(), is not zero and whose altitude is
\* not negative; the rest as stated.
C4_Shape ==
    \A p \in Procs :
        Regenerated(p)
        => /\ Shaped(self[p].hoys, Len(Surviving(p)))
           /\ \A k \in 1..Len(dir["ann"].lines) :
                 /\ self[p].wea[dir["ann"].lines[k].vec] # 0
                 /\ dir["ann"].lines[k].vec = self[p].hoys[Surviving(p)[k]]

\* Two hours requested: one below the horizon or of radiation 0, one kept.
C4_Witness ==
    /\ Regenerated(1)
    /\ Len(self[1].hoys) = 2
    /\ self[1].wea[self[1].hoys[1]] = 0
    /\ dir["mtx"].header = [nrows |-> 1, ncols |-> 2]
    /\ Len(dir["sun"].lines) = 1

\* C5 as stated: every row of the matrix has exactly one cell that is not
\* "0 0 0", at the position of the row's hour in the requested sequence, its
\* three values equal.
C5_Stated ==
    \A p \in Procs :
        Regenerated(p)
        => /\ Len(dir["mtx"].rows) = Len(Surviving(p))
           /\ \A k \in 1..Len(dir["mtx"].rows) :
                 LET row == dir["mtx"].rows[k] IN
                 /\ NonZeroCells(row) = {Surviving(p)[k]}
                 /\ row[Surviving(p)[k]][1] = row[Surviving(p)[k]][2]
                 /\ row[Surviving(p)[k]][2] = row[Surviving(p)[k]][3]

\* C5, amended: in every row the cell at the position of the row's hour holds
\* the radiance of the row's sun three times, and every other cell is
\* "0 0 0"; so a row has one cell that is not "0 0 0" when that radiance is
\* not 0 and none when it is 0.
C5_OneCell ==
    \A p \in Procs :
        Regenerated(p)
        => /\ Len(dir["mtx"].rows) = Len(Surviving(p))
           /\ Len(dir["ann"].lines) = Len(Surviving(p))
           /\ \A k \in 1..Len(dir["mtx"].rows) :
                 LET row == dir["mtx"].rows[k]
                     at  == Surviving(p)[k]
                     v   == dir["ann"].lines[k].rad[1]
                 IN /\ row[at] = <<v, v, v>>
                    /\ row[at] = dir["ann"].lines[k].rad
                    /\ \A c \in 1..Len(row) : c # at => row[c] = ZeroCell
                    /\ NonZeroCells(row) = IF v = 0 THEN {} ELSE {at}

\* Two rows, the first with its cell in the first column, the second in the
\* second, both of radiance 5.
C5_Witness ==
    /\ Regenerated(1)
    /\ Len(dir["mtx"].rows) = 2
    /\ NonZeroCells(dir["mtx"].rows[1]) = {1}
    /\ NonZeroCells(dir["mtx"].rows[2]) = {2}
    /\ dir["mtx"].rows[2][2] = <<5, 5, 5>>

\* C6: after a regeneration the k-th line of .ann defines solar<k>, the k-th
\* line of .sun names the same sun, and the k-th row of the matrix is that of
\* the same hour, for k from 1 to the number of surviving hours.
C6_DenseCounter ==
    \A p \in Procs :
        Regenerated(p)
        => /\ Len(dir["ann"].lines) = Len(Surviving(p))
           /\ Len(dir["sun"].lines) = Len(Surviving(p))
           /\ \A k \in 1..Len(dir["ann"].lines) :
                 /\ dir["ann"].lines[k].id = k
                 /\ dir["sun"].lines[k] = dir["ann"].lines[k].id
                 /\ dir["ann"].lines[k].vec = self[p].hoys[Surviving(p)[k]]

\* The statements of execute before the first output is opened.
BeforeOutputs == {"check", "found", "open_hrs", "write_hrs", "compute", "raised", "open_ann"}

\* C8: the signature is written before the outputs and stays when execute
\* raises: up to the exception no output is touched and the .hrs file holds
\* the new hours; and when the outputs of an earlier request are all there,
\* the next execute(reuse=True) of the object finds the hours to match and
\* returns them as a cache hit, opening no file and computing nothing.
C8_StaleHitAfterAbort ==
    [][\A p \in Procs :
          /\ (~Resting(p) /\ frame'[p].pc \in BeforeOutputs)
             => \A i \in 1..Len(Paths) : dir'[Paths[i]] = dir[Paths[i]]
          /\ (frame[p].pc # "raised" /\ frame'[p].pc = "raised")
             => (dir' = dir /\ Recorded(self[p].hoys))
          /\ (spy[p].last = "raised" /\ frame[p].reuse /\ ThreeOutputs
                /\ frame[p].pc = "check")
             => (frame'[p].pc = "found" /\ dir' = dir)
          /\ (spy[p].last = "raised" /\ frame[p].reuse /\ ThreeOutputs
                /\ frame[p].pc = "found")
             => /\ frame'[p].pc = "done"
                /\ frame'[p].ret = Paths
                /\ "Found the sun matrix!" \in spy'[p].printed
                /\ spy'[p].opened = {}
                /\ spy'[p].gendaylit = 0
                /\ dir' = dir
      ]_vars

\* A cache hit after the exception, on a matrix of another number of columns.
C8_Witness ==
    /\ CacheHit(1)
    /\ spy[1].last = "raised"
    /\ Recorded(self[1].hoys)
    /\ dir["mtx"].closed
    /\ dir["mtx"].header.ncols # Len(self[1].hoys)

\* What the cache check reads: the flag, the signature, the three files.
Valid(p) == frame[p].reuse /\ Recorded(self[p].hoys) /\ ThreeOutputs

\* C9: whether execute reuses depends on the .hrs file and the presence of the
\* outputs alone, whatever the weather series of the object: when the hours
\* match and the three files are there it returns the paths with the directory
\* as it was and no collaborator called, and otherwise it goes on to line 135.
C9_NameAndHoursOnly ==
    [][\A p \in Procs :
          /\ (frame[p].pc = "check" /\ Valid(p))
             => (frame'[p].pc = "found" /\ dir' = dir)
          /\ (frame[p].pc = "found" /\ Valid(p))
             => /\ frame'[p].pc = "done"
                /\ frame'[p].ret = Paths
                /\ spy'[p].opened = {}
                /\ spy'[p].gendaylit = 0
                /\ spy'[p].calculateSun = 0
                /\ dir' = dir
          /\ (frame[p].pc = "check"
                /\ ~(frame[p].reuse /\ Recorded(self[p].hoys)))
             => frame'[p].pc = "open_hrs"
          /\ (frame[p].pc = "found" /\ ~ThreeOutputs)
             => frame'[p].pc = "open_hrs"
      ]_vars

\* A cache hit of a new object on whole outputs that are not those of its
\* weather series: the matrix has another number of rows.
C9_Witness ==
    /\ CacheHit(1)
    /\ spy[1].last = "none"
    /\ dir["mtx"].closed
    /\ dir["mtx"].header.ncols = Len(self[1].hoys)
    /\ dir["mtx"].header.nrows = Len(dir["mtx"].rows)
    /\ dir["mtx"].header.nrows = Len(dir["ann"].lines)
    /\ dir["mtx"].header.nrows # Len(Surviving(1))

\* The matrix file is whole: header, as many rows as it announces, last line.
MtxWhole ==
    /\ dir["mtx"] # NoFile
    /\ dir["mtx"].closed
    /\ dir["mtx"].header # NoHeader
    /\ Len(dir["mtx"].rows) = dir["mtx"].header.nrows

\* The other caller is between its open of the matrix file and its close.
WritingMtx(q) == frame[q].pc \in {"write_header", "write_rows"}

\* C10: with two callers nothing keeps the cache check of one from the writes
\* of the other: a caller at line 128 that finds the three files returns the
\* paths, the directory as it is, whatever the other caller is doing; and the
\* matrix a cache hit has returned is not whole only while the other caller is
\* between its open of the matrix file and its close.
C10_NoLock ==
    /\ [](\A p \in Procs :
            (CacheHit(p) /\ ~MtxWhole) => \E q \in Procs \ {p} : WritingMtx(q))
    /\ [][\A p \in Procs :
            (frame[p].pc = "found" /\ frame'[p] # frame[p] /\ ThreeOutputs)
            => /\ frame'[p].pc = "done"
               /\ frame'[p].ret = Paths
               /\ "Found the sun matrix!" \in spy'[p].printed
               /\ dir' = dir
         ]_vars

\* Caller 2 has returned a cache hit on a matrix whose header announces two
\* rows and that holds fewer, while caller 1 is still writing it.
C10_Witness ==
    /\ CacheHit(2)
    /\ frame[2].reuse
    /\ frame[2].ret = Paths
    /\ WritingMtx(1)
    /\ dir["mtx"].header = [nrows |-> 2, ncols |-> 2]
    /\ Len(dir["mtx"].rows) < 2
    /\ ~dir["mtx"].closed

----------------------------------------------------------------------------
(* The glass material (glass.py). *)

\* Transmittances a caller passes, in halves: 0.0, 0.5, 1.0 and 1.5.
TransValues == {0, 1, 2, 3}

\* Indices of refraction, in hundredths: 1.52 for glass, 1.4 for ETFE.
DefaultRefraction == 152

Refractions == {DefaultRefraction, 140}

Modifiers == {"void", "glow_mod"}

Names == {"generic_glass"}

\* An argument is <<x>>, or <<>> when the caller leaves it out.
Args(values) == {<<x>> : x \in values} \cup {<<>>}

\* The value a parameter takes: the argument, or the default when left out.
Bound(arg, default) == IF Len(arg) = 0 THEN default ELSE arg[1]

AssertionError == [type |-> "AssertionError"]

\* The setters' assert 0 <= value <= 1, on a value in halves.
InRange(value) == 0 <= value /\ value <= 2

\* Glass.__init__
GlassInit(name, r_transmittance, g_transmittance, b_transmittance, refraction, modifier) ==
    IF InRange(r_transmittance) /\ InRange(g_transmittance) /\ InRange(b_transmittance)
    THEN [type            |-> "glass",
          name            |-> name,
          modifier        |-> modifier,
          r_transmittance |-> r_transmittance,
          g_transmittance |-> g_transmittance,
          b_transmittance |-> b_transmittance,
          refractionIndex |-> refraction]
    ELSE AssertionError

\* Glass.by_single_trans_value
BySingleTransValue(name, rgb_transmittance, refraction, modifier) ==
    GlassInit(name, rgb_transmittance, rgb_transmittance, rgb_transmittance,
              DefaultRefraction, "void")

\* Glass(name, r, g, b, refraction, modifier), the last two possibly left out
NewGlass ==
    \E name \in Names, r \in TransValues, g \in TransValues, b \in TransValues,
       refraction \in Args(Refractions),
       modifier \in Args(Modifiers) :
        /\ glass' = [made |-> GlassInit(name, r, g, b,
                                        Bound(refraction, DefaultRefraction),
                                        Bound(modifier, "void")),
                     by   |-> "Glass",
                     args |-> [name |-> name, r |-> r, g |-> g, b |-> b,
                               refraction |-> refraction, modifier |-> modifier]]
        /\ UNCHANGED <<dir, sunpath, self, frame, spy>>

\* Glass.by_single_trans_value(name, rgb_transmittance, refraction, modifier)
NewGlassBySingleTransValue ==
    \E name \in Names, rgb \in TransValues,
       refraction \in Args(Refractions),
       modifier \in Args(Modifiers) :
        /\ glass' = [made |-> BySingleTransValue(name, rgb,
                                                 Bound(refraction, DefaultRefraction),
                                                 Bound(modifier, "void")),
                     by   |-> "by_single_trans_value",
                     args |-> [name |-> name, r |-> rgb, g |-> rgb, b |-> rgb,
                               refraction |-> refraction, modifier |-> modifier]]
        /\ UNCHANGED <<dir, sunpath, self, frame, spy>>

\* Glass.to_json: the dictionary of the material's fields; the "modifier"
\* entry is the literal "void", as the code writes it.
ToJson(g) ==
    [type            |-> "glass",
     name            |-> g.name,
     r_transmittance |-> g.r_transmittance,
     g_transmittance |-> g.g_transmittance,
     b_transmittance |-> g.b_transmittance,
     refraction      |-> g.refractionIndex,
     modifier        |-> "void"]

\* Glass.from_json: the constructor on the dictionary's entries.
FromJson(rec_json) ==
    GlassInit(rec_json.name, rec_json.r_transmittance, rec_json.g_transmittance,
              rec_json.b_transmittance, rec_json.refraction, rec_json.modifier)

\* json = g.to_json(), for the material g last created
GlassToJson ==
    /\ glass # NoGlass
    /\ glass.made # AssertionError
    /\ "json" \notin DOMAIN glass
    /\ glass' = [made |-> glass.made, by |-> glass.by, args |-> glass.args,
                 json |-> ToJson(glass.made)]
    /\ UNCHANGED <<dir, sunpath, self, frame, spy>>

\* back = Glass.from_json(json), and back.to_json()
GlassFromJson ==
    /\ glass # NoGlass
    /\ "json" \in DOMAIN glass
    /\ "back" \notin DOMAIN glass
    /\ LET back == FromJson(glass.json)
       IN glass' = [made |-> glass.made, by |-> glass.by, args |-> glass.args,
                    json |-> glass.json,
                    back |-> back,
                    again |-> IF back = AssertionError THEN None ELSE <<ToJson(back)>>]
    /\ UNCHANGED <<dir, sunpath, self, frame, spy>>

NextGlass ==
    NewGlass \/ NewGlassBySingleTransValue \/ GlassToJson \/ GlassFromJson

SpecGlass == Init /\ [][NextGlass]_vars

\* C7: a material made by by_single_trans_value has the one transmittance in
\* red, green and blue, and the index of refraction and the modifier the
\* caller passed (1.52 and "void" when the caller left them out).
C7_SingleTransValue ==
    (glass # NoGlass /\ glass.by = "by_single_trans_value"
        /\ glass.made # AssertionError)
    => /\ glass.made.r_transmittance = glass.args.r
       /\ glass.made.g_transmittance = glass.args.r
       /\ glass.made.b_transmittance = glass.args.r
       /\ glass.made.name = glass.args.name
       /\ glass.made.refractionIndex = Bound(glass.args.refraction, DefaultRefraction)
       /\ glass.made.modifier = Bound(glass.args.modifier, "void")

\* A material has come back from its own JSON.
RoundTripped == glass # NoGlass /\ "back" \in DOMAIN glass

\* C11: Glass.from_json(g.to_json()) has the same name, red, green and blue
\* transmittance, index of refraction and modifier as g, and its to_json
\* equals g.to_json().
C11_JsonRoundTrip ==
    RoundTripped
    => /\ glass.back # AssertionError
       /\ glass.back.name = glass.made.name
       /\ glass.back.r_transmittance = glass.made.r_transmittance
       /\ glass.back.g_transmittance = glass.made.g_transmittance
       /\ glass.back.b_transmittance = glass.made.b_transmittance
       /\ glass.back.refractionIndex = glass.made.refractionIndex
       /\ glass.back.modifier = glass.made.modifier
       /\ glass.again = <<glass.json>>

\* What does survive the round trip: every field but the modifier, which
\* comes back as "void", and the JSON itself.
C11_AllButModifier ==
    RoundTripped
    => /\ glass.back # AssertionError
       /\ glass.back.name = glass.made.name
       /\ glass.back.r_transmittance = glass.made.r_transmittance
       /\ glass.back.g_transmittance = glass.made.g_transmittance
       /\ glass.back.b_transmittance = glass.made.b_transmittance
       /\ glass.back.refractionIndex = glass.made.refractionIndex
       /\ glass.back.modifier = "void"
       /\ glass.again = <<glass.json>>

\* A material with a modifier other than "void" has made the round trip.
C11_Witness ==
    /\ RoundTripped
    /\ glass.by = "Glass"
    /\ glass.made.modifier = "glow_mod"
    /\ glass.made.refractionIndex = 140

====
